---- MODULE Spec2Model ----
(***************************************************************************)
(* Tilt-Timer (src/Tilt-Timer_code.c): an orientation-triggered countdown  *)
(* timer.  One step of the model is one pass of loop() from yield point to *)
(* yield point: the delay() at the end of the previous pass followed by    *)
(* the body of the next pass.  Times are in milliseconds, accelerations in *)
(* tenths of m/s^2, millis() is a 32-bit unsigned counter.                 *)
(***************************************************************************)
EXTENDS Integers, Sequences, FiniteSets, TLC

VARIABLES
  pc,                     \* "boot" before setup(), "loop" afterwards, "classify"/"classified" in SpecFace
  clock,                  \* millis(): 32-bit unsigned millisecond counter, as a pair of halves
  sample,                 \* last accelerometer reading <<x, y, z>>
  currentFace,            \* loop(): Face currentFace of the last pass
  currentState, activeFace,
  countdownTotalSec, countdownRemainingSec, countdownAxisLabel,
  lastCountdownTick, countdownRotation,
  lastAlarmToggleMs, alarmOutputState,
  axisChangePending, axisChangeStartMs,
  currentNoteIndex, noteStartMs,
  ledPin, piezoPin, toneFreq, display,   \* outputs: LED_PIN, PIEZO_PIN level, tone() frequency, OLED
  uptime,                 \* history: milliseconds since Init, never wrapped
  period,                 \* environment: milliseconds from one pass of loop() to the next
  passes, turns,          \* history: passes so far, reorientations so far
  sessions,               \* history: countdowns started so far
  events,                 \* history: what the last pass did
  diffSince,              \* history: uptime of the first pass of the current run of passes that saw another face, -1 if none
  anchors                 \* history: uptime at which each timestamp of the program was last written

vars == <<pc, clock, sample, currentFace, currentState, activeFace,
          countdownTotalSec, countdownRemainingSec, countdownAxisLabel,
          lastCountdownTick, countdownRotation, lastAlarmToggleMs, alarmOutputState,
          axisChangePending, axisChangeStartMs, currentNoteIndex, noteStartMs,
          ledPin, piezoPin, toneFreq, display, period, uptime, passes, turns, sessions, events, diffSince, anchors>>

----------------------------------------------------------------------------
(* Program constants *)
AXIS_G_MIN == 90
AXIS_G_MAX == 115
COUNT_NEG_Y_SEC == 5
COUNT_POS_X_SEC == 10
COUNT_POS_Y_SEC == 15
COUNT_NEG_X_SEC == 30
ALARM_TOGGLE_MS == 1000
AXIS_CHANGE_BUFFER_MS == 500
COUNTDOWN_TICK_MS == 1000
POLL_MS == 50
ClockBits == 32

STATE_MENU == "MENU"
STATE_COUNTDOWN == "COUNTDOWN"
STATE_ALARM == "ALARM"
State == {STATE_MENU, STATE_COUNTDOWN, STATE_ALARM}

FACE_NONE == "NONE"
FACE_NEG_Y == "NEG_Y"
FACE_POS_X == "POS_X"
FACE_POS_Y == "POS_Y"
FACE_NEG_X == "NEG_X"
Face == {FACE_NONE, FACE_NEG_Y, FACE_POS_X, FACE_POS_Y, FACE_NEG_X}

melody == <<659, 587, 370, 415, 554, 494, 294, 330, 494, 440, 277, 330, 440>>
noteDurations == <<150, 150, 300, 300, 150, 150, 300, 300, 150, 150, 300, 300, 600>>
NUM_NOTES == Len(melody)

LOW == 0
HIGH == 1

----------------------------------------------------------------------------
(* Bounds of the exploration *)
MaxPasses == 14          \* passes of loop() explored while the device is being handled
MaxTurns == 3            \* times the device is turned onto another side while handled
MaxRestPasses == 190     \* passes of loop() explored while the device is left to rest
MaxRestTurns == 2        \* times the device is turned onto another side in those runs
MaxAwayPasses == 30      \* passes of loop() explored in the liveness runs
WrapEarly == 425         \* a clock that wraps this many ms after Init, within the first second
WrapLate == 7125         \* a clock that wraps this many ms after Init, within a first alarm
BootMs == 300            \* millis() when setup() ends
LatePeriods == {250, 1000, 2000}   \* pass periods of a slow scheduler, beside the nominal POLL_MS

----------------------------------------------------------------------------
fabsf(v) == IF v < 0 THEN -v ELSE v

\* detectFace without the dominant-axis comparisons
detectFaceAnyAxis(x, y, z) ==
  LET ax == fabsf(x)
      ay == fabsf(y)
      az == fabsf(z)
  IN  IF ay >= AXIS_G_MIN /\ ay <= AXIS_G_MAX
        THEN (IF y > 0 THEN FACE_POS_Y ELSE FACE_NEG_Y)
      ELSE IF ax >= AXIS_G_MIN /\ ax <= AXIS_G_MAX
        THEN (IF x > 0 THEN FACE_POS_X ELSE FACE_NEG_X)
      ELSE FACE_NONE

\* detectFace testing the X axis before the Y axis
detectFaceXFirst(x, y, z) ==
  LET ax == fabsf(x)
      ay == fabsf(y)
      az == fabsf(z)
  IN  IF ax >= ay /\ ax >= az /\ ax >= AXIS_G_MIN /\ ax <= AXIS_G_MAX
        THEN (IF x > 0 THEN FACE_POS_X ELSE FACE_NEG_X)
      ELSE IF ay >= ax /\ ay >= az /\ ay >= AXIS_G_MIN /\ ay <= AXIS_G_MAX
        THEN (IF y > 0 THEN FACE_POS_Y ELSE FACE_NEG_Y)
      ELSE FACE_NONE

detectFace(x, y, z) ==
  LET ax == fabsf(x)
      ay == fabsf(y)
      az == fabsf(z)
  IN  IF ay >= ax /\ ay >= az /\ ay >= AXIS_G_MIN /\ ay <= AXIS_G_MAX
        THEN (IF y > 0 THEN FACE_POS_Y ELSE FACE_NEG_Y)
      ELSE IF ax >= ay /\ ax >= az /\ ax >= AXIS_G_MIN /\ ax <= AXIS_G_MAX
        THEN (IF x > 0 THEN FACE_POS_X ELSE FACE_NEG_X)
      ELSE IF az >= AXIS_G_MIN /\ az <= AXIS_G_MAX
        THEN FACE_NONE
      ELSE FACE_NONE

(* unsigned long (32 bits) as a pair <<high half, low half>> of 16-bit     *)
(* halves, so that every intermediate value stays within 32 signed bits     *)
Half == 2 ^ (ClockBits \div 2)
ULong == (0 .. (Half - 1)) \X (0 .. (Half - 1))
ul(n) == <<(n \div Half) % Half, n % Half>>

\* 2^32 - n, 0 < n < 2^16
ulBeforeWrap(n) == <<Half - 1, Half - n>>

\* a + n, n a small natural number
ulAdd(a, n) ==
  LET lo == a[2] + n
  IN  <<(a[1] + (lo \div Half)) % Half, lo % Half>>

\* the difference of the timestamps taken as plain numbers, 0 when now < then
ElapsedNoWrap(now, then) ==
  IF now[1] < then[1] \/ (now[1] = then[1] /\ now[2] < then[2])
    THEN <<0, 0>>
    ELSE LET lo == now[2] - then[2]
             borrow == IF lo < 0 THEN 1 ELSE 0
         IN  <<(now[1] - then[1] - borrow) % Half, lo % Half>>

\* unsigned long subtraction  now - then
Elapsed(now, then) ==
  LET lo == now[2] - then[2]
      borrow == IF lo < 0 THEN 1 ELSE 0
  IN  <<(now[1] - then[1] - borrow) % Half, lo % Half>>

\* d >= ms on unsigned long, ms < 2^16
AtLeast(d, ms) == d[1] > 0 \/ d[2] >= ms

----------------------------------------------------------------------------
(* The program state as one record, so that each function of the source is *)
(* an operator from state to state.  Field ev collects what the pass did.  *)
Machine ==
  [currentState |-> currentState, activeFace |-> activeFace,
   countdownTotalSec |-> countdownTotalSec, countdownRemainingSec |-> countdownRemainingSec,
   countdownAxisLabel |-> countdownAxisLabel, lastCountdownTick |-> lastCountdownTick,
   countdownRotation |-> countdownRotation,
   lastAlarmToggleMs |-> lastAlarmToggleMs, alarmOutputState |-> alarmOutputState,
   axisChangePending |-> axisChangePending, axisChangeStartMs |-> axisChangeStartMs,
   currentNoteIndex |-> currentNoteIndex, noteStartMs |-> noteStartMs,
   ledPin |-> ledPin, piezoPin |-> piezoPin, toneFreq |-> toneFreq, display |-> display,
   ev |-> {}]

did(m, e) == [m EXCEPT !.ev = @ \cup {e}]

drawMenu(m) ==
  [m EXCEPT !.display = [screen |-> "menu", rotation |-> 0, number |-> -1]]

drawCountdownScreen(m) ==
  [m EXCEPT !.display = [screen |-> "countdown", rotation |-> m.countdownRotation,
                         number |-> m.countdownRemainingSec]]

\* goToMenu without the noTone() call
goToMenuNoisy(m) ==
  drawMenu([m EXCEPT !.currentState = STATE_MENU,
                     !.activeFace = FACE_NONE,
                     !.axisChangePending = FALSE,
                     !.ledPin = LOW,
                     !.piezoPin = LOW])

\* goToMenu without the reset of axisChangePending
goToMenuKeepsWindow(m) ==
  drawMenu([m EXCEPT !.currentState = STATE_MENU,
                     !.activeFace = FACE_NONE,
                     !.ledPin = LOW,
                     !.piezoPin = LOW,
                     !.toneFreq = 0])

goToMenu(m) ==
  drawMenu([m EXCEPT !.currentState = STATE_MENU,
                     !.activeFace = FACE_NONE,
                     !.axisChangePending = FALSE,
                     !.ledPin = LOW,
                     !.piezoPin = LOW,
                     !.toneFreq = 0])

\* startCountdown without the assignment to activeFace
startCountdownNoFace(m, seconds, axisLabel, rotationIndex, face, now) ==
  drawCountdownScreen(did([m EXCEPT !.countdownTotalSec = seconds,
                                    !.countdownRemainingSec = seconds,
                                    !.countdownAxisLabel = axisLabel,
                                    !.countdownRotation = rotationIndex,
                                    !.lastCountdownTick = now,
                                    !.currentState = STATE_COUNTDOWN,
                                    !.axisChangePending = FALSE], "start"))

startCountdown(m, seconds, axisLabel, rotationIndex, face, now) ==
  drawCountdownScreen(did([m EXCEPT !.countdownTotalSec = seconds,
                                    !.countdownRemainingSec = seconds,
                                    !.countdownAxisLabel = axisLabel,
                                    !.countdownRotation = rotationIndex,
                                    !.lastCountdownTick = now,
                                    !.currentState = STATE_COUNTDOWN,
                                    !.activeFace = face,
                                    !.axisChangePending = FALSE], "start"))

\* startAlarm clearing the pending axis change, as startCountdown does
startAlarmClearsWindow(m, now) ==
  LET m1 == [m EXCEPT !.currentState = STATE_ALARM,
                      !.lastAlarmToggleMs = now,
                      !.alarmOutputState = FALSE,
                      !.axisChangePending = FALSE,
                      !.currentNoteIndex = 0,
                      !.noteStartMs = now,
                      !.ledPin = LOW,
                      !.piezoPin = LOW,
                      !.toneFreq = melody[1]]
  IN  did([m1 EXCEPT !.display = [screen |-> "alarm", rotation |-> m.countdownRotation,
                                  number |-> -1]], "expire")

\* startAlarm without the first tone()
startAlarmSilent(m, now) ==
  LET m1 == [m EXCEPT !.currentState = STATE_ALARM,
                      !.lastAlarmToggleMs = now,
                      !.alarmOutputState = FALSE,
                      !.currentNoteIndex = 0,
                      !.noteStartMs = now,
                      !.ledPin = LOW,
                      !.piezoPin = LOW]
  IN  did([m1 EXCEPT !.display = [screen |-> "alarm", rotation |-> m.countdownRotation,
                                  number |-> -1]], "expire")

startAlarm(m, now) ==
  LET m1 == [m EXCEPT !.currentState = STATE_ALARM,
                      !.lastAlarmToggleMs = now,
                      !.alarmOutputState = FALSE,
                      !.currentNoteIndex = 0,
                      !.noteStartMs = now,
                      !.ledPin = LOW,
                      !.piezoPin = LOW]
      m2 == [m1 EXCEPT !.toneFreq = IF melody[m1.currentNoteIndex + 1] > 0
                                      THEN melody[m1.currentNoteIndex + 1] ELSE 0]
  IN  did([m2 EXCEPT !.display = [screen |-> "alarm", rotation |-> m.countdownRotation,
                                  number |-> -1]], "expire")

\* updateCountdown handing over to the alarm one second early
updateCountdownEarly(m, now) ==
  IF m.currentState # STATE_COUNTDOWN THEN m
  ELSE IF AtLeast(Elapsed(now, m.lastCountdownTick), COUNTDOWN_TICK_MS)
    THEN LET m1 == [m EXCEPT !.lastCountdownTick = now]
         IN  IF m1.countdownRemainingSec > 1
               THEN drawCountdownScreen(did([m1 EXCEPT !.countdownRemainingSec = @ - 1], "dec"))
               ELSE startAlarm(m1, now)
    ELSE m

\* updateCountdown resting at zero instead of starting the alarm
updateCountdownStalls(m, now) ==
  IF m.currentState # STATE_COUNTDOWN THEN m
  ELSE IF AtLeast(Elapsed(now, m.lastCountdownTick), COUNTDOWN_TICK_MS)
    THEN LET m1 == [m EXCEPT !.lastCountdownTick = now]
         IN  IF m1.countdownRemainingSec > 0
               THEN drawCountdownScreen(did([m1 EXCEPT !.countdownRemainingSec = @ - 1], "dec"))
               ELSE m1
    ELSE m

\* updateCountdown advancing the tick timestamp by one second instead of to now
updateCountdownFixedCadence(m, now) ==
  IF m.currentState # STATE_COUNTDOWN THEN m
  ELSE IF AtLeast(Elapsed(now, m.lastCountdownTick), COUNTDOWN_TICK_MS)
    THEN LET m1 == [m EXCEPT !.lastCountdownTick = ulAdd(@, COUNTDOWN_TICK_MS)]
         IN  IF m1.countdownRemainingSec > 0
               THEN drawCountdownScreen(did([m1 EXCEPT !.countdownRemainingSec = @ - 1], "dec"))
               ELSE startAlarm(m1, now)
    ELSE m

updateCountdown(m, now) ==
  IF m.currentState # STATE_COUNTDOWN THEN m
  ELSE IF AtLeast(Elapsed(now, m.lastCountdownTick), COUNTDOWN_TICK_MS)
    THEN LET m1 == [m EXCEPT !.lastCountdownTick = now]
         IN  IF m1.countdownRemainingSec > 0
               THEN drawCountdownScreen(did([m1 EXCEPT !.countdownRemainingSec = @ - 1], "dec"))
               ELSE startAlarm(m1, now)
    ELSE m

\* updateAlarm wrapping one note early
updateAlarmSkipsLast(m, now) ==
  IF m.currentState # STATE_ALARM THEN m
  ELSE
    LET m1 == IF AtLeast(Elapsed(now, m.lastAlarmToggleMs), ALARM_TOGGLE_MS)
                THEN did([m EXCEPT !.lastAlarmToggleMs = now,
                                   !.alarmOutputState = ~ @,
                                   !.ledPin = IF m.alarmOutputState THEN LOW ELSE HIGH], "blink")
                ELSE m
    IN  IF AtLeast(Elapsed(now, m1.noteStartMs), noteDurations[m1.currentNoteIndex + 1])
          THEN LET next == IF m1.currentNoteIndex + 1 >= NUM_NOTES - 1 THEN 0
                           ELSE m1.currentNoteIndex + 1
               IN  did([m1 EXCEPT !.currentNoteIndex = next,
                                  !.noteStartMs = now,
                                  !.toneFreq = IF melody[next + 1] > 0 THEN melody[next + 1] ELSE 0],
                       "note")
          ELSE m1

\* updateAlarm returning to the menu when the melody has been played once
updateAlarmPlaysOnce(m, now) ==
  IF m.currentState # STATE_ALARM THEN m
  ELSE
    LET m1 == IF AtLeast(Elapsed(now, m.lastAlarmToggleMs), ALARM_TOGGLE_MS)
                THEN did([m EXCEPT !.lastAlarmToggleMs = now,
                                   !.alarmOutputState = ~ @,
                                   !.ledPin = IF m.alarmOutputState THEN LOW ELSE HIGH], "blink")
                ELSE m
    IN  IF AtLeast(Elapsed(now, m1.noteStartMs), noteDurations[m1.currentNoteIndex + 1])
          THEN IF m1.currentNoteIndex + 1 >= NUM_NOTES
                 THEN goToMenu(m1)
                 ELSE did([m1 EXCEPT !.currentNoteIndex = @ + 1,
                                     !.noteStartMs = now,
                                     !.toneFreq = melody[m1.currentNoteIndex + 2]], "note")
          ELSE m1

\* updateAlarm with the note advance restarting the blink clock as well
updateAlarmCoupled(m, now) ==
  IF m.currentState # STATE_ALARM THEN m
  ELSE
    LET m1 == IF AtLeast(Elapsed(now, m.lastAlarmToggleMs), ALARM_TOGGLE_MS)
                THEN did([m EXCEPT !.lastAlarmToggleMs = now,
                                   !.alarmOutputState = ~ @,
                                   !.ledPin = IF m.alarmOutputState THEN LOW ELSE HIGH], "blink")
                ELSE m
    IN  IF AtLeast(Elapsed(now, m1.noteStartMs), noteDurations[m1.currentNoteIndex + 1])
          THEN LET next == IF m1.currentNoteIndex + 1 >= NUM_NOTES THEN 0
                           ELSE m1.currentNoteIndex + 1
               IN  did([m1 EXCEPT !.currentNoteIndex = next,
                                  !.noteStartMs = now,
                                  !.lastAlarmToggleMs = now,
                                  !.toneFreq = IF melody[next + 1] > 0 THEN melody[next + 1] ELSE 0],
                       "note")
          ELSE m1

updateAlarm(m, now) ==
  IF m.currentState # STATE_ALARM THEN m
  ELSE
    LET m1 == IF AtLeast(Elapsed(now, m.lastAlarmToggleMs), ALARM_TOGGLE_MS)
                THEN did([m EXCEPT !.lastAlarmToggleMs = now,
                                   !.alarmOutputState = ~ @,
                                   !.ledPin = IF m.alarmOutputState THEN LOW ELSE HIGH], "blink")
                ELSE m
    IN  IF AtLeast(Elapsed(now, m1.noteStartMs), noteDurations[m1.currentNoteIndex + 1])
          THEN LET next == IF m1.currentNoteIndex + 1 >= NUM_NOTES THEN 0
                           ELSE m1.currentNoteIndex + 1
               IN  did([m1 EXCEPT !.currentNoteIndex = next,
                                  !.noteStartMs = now,
                                  !.toneFreq = IF melody[next + 1] > 0 THEN melody[next + 1] ELSE 0],
                       "note")
          ELSE m1

\* axisChange with the stable branch leaving the pending window open
axisChangeKeepsWindow(m, face, now) ==
  IF m.currentState = STATE_COUNTDOWN \/ m.currentState = STATE_ALARM
    THEN IF face = m.activeFace /\ face # FACE_NONE
           THEN [m |-> m, ret |-> FALSE]
         ELSE IF ~ m.axisChangePending
           THEN [m |-> did([m EXCEPT !.axisChangePending = TRUE,
                                     !.axisChangeStartMs = now], "open"), ret |-> FALSE]
         ELSE IF AtLeast(Elapsed(now, m.axisChangeStartMs), AXIS_CHANGE_BUFFER_MS)
           THEN [m |-> did(goToMenu(m), "confirm"), ret |-> TRUE]
         ELSE [m |-> m, ret |-> FALSE]
    ELSE [m |-> [m EXCEPT !.axisChangePending = FALSE, !.activeFace = FACE_NONE],
          ret |-> FALSE]

\* axisChange returning to the menu on the second differing pass, whatever the time
axisChangeNoBuffer(m, face, now) ==
  IF m.currentState = STATE_COUNTDOWN \/ m.currentState = STATE_ALARM
    THEN IF face = m.activeFace /\ face # FACE_NONE
           THEN [m |-> [m EXCEPT !.axisChangePending = FALSE], ret |-> FALSE]
         ELSE IF ~ m.axisChangePending
           THEN [m |-> did([m EXCEPT !.axisChangePending = TRUE,
                                     !.axisChangeStartMs = now], "open"), ret |-> FALSE]
         ELSE [m |-> did(goToMenu(m), "confirm"), ret |-> TRUE]
    ELSE [m |-> [m EXCEPT !.axisChangePending = FALSE, !.activeFace = FACE_NONE],
          ret |-> FALSE]

\* axisChange tracking the face in every state, the menu included
axisChangeAlways(m, face, now) ==
  IF face = m.activeFace /\ face # FACE_NONE
    THEN [m |-> [m EXCEPT !.axisChangePending = FALSE], ret |-> FALSE]
  ELSE IF ~ m.axisChangePending
    THEN [m |-> did([m EXCEPT !.axisChangePending = TRUE,
                              !.axisChangeStartMs = now], "open"), ret |-> FALSE]
  ELSE IF ~ AtLeast(Elapsed(now, m.axisChangeStartMs), AXIS_CHANGE_BUFFER_MS)
    THEN [m |-> m, ret |-> FALSE]
  ELSE [m |-> did(goToMenu(m), "confirm"), ret |-> TRUE]

\* axisChange confirming only after more than the buffer time
axisChangeStrict(m, face, now) ==
  IF m.currentState = STATE_COUNTDOWN \/ m.currentState = STATE_ALARM
    THEN IF face = m.activeFace /\ face # FACE_NONE
           THEN [m |-> [m EXCEPT !.axisChangePending = FALSE], ret |-> FALSE]
         ELSE IF ~ m.axisChangePending
           THEN [m |-> did([m EXCEPT !.axisChangePending = TRUE,
                                     !.axisChangeStartMs = now], "open"), ret |-> FALSE]
         ELSE IF ~ AtLeast(Elapsed(now, m.axisChangeStartMs), AXIS_CHANGE_BUFFER_MS + 1)
           THEN [m |-> m, ret |-> FALSE]
         ELSE [m |-> did(goToMenu(m), "confirm"), ret |-> TRUE]
    ELSE [m |-> [m EXCEPT !.axisChangePending = FALSE, !.activeFace = FACE_NONE],
          ret |-> FALSE]

\* loop(), lines 157-177: the axis-change tracking; field ret is the early return
axisChange(m, face, now) ==
  IF m.currentState = STATE_COUNTDOWN \/ m.currentState = STATE_ALARM
    THEN IF face = m.activeFace /\ face # FACE_NONE
           THEN [m |-> [m EXCEPT !.axisChangePending = FALSE], ret |-> FALSE]
         ELSE IF ~ m.axisChangePending
           THEN [m |-> did([m EXCEPT !.axisChangePending = TRUE,
                                     !.axisChangeStartMs = now], "open"), ret |-> FALSE]
         ELSE IF AtLeast(Elapsed(now, m.axisChangeStartMs), AXIS_CHANGE_BUFFER_MS)
           THEN [m |-> did(goToMenu(m), "confirm"), ret |-> TRUE]
         ELSE [m |-> m, ret |-> FALSE]
    ELSE [m |-> [m EXCEPT !.axisChangePending = FALSE, !.activeFace = FACE_NONE],
          ret |-> FALSE]

\* dispatch with each X face given the duration its constant is named after
dispatchByName(m, face, now) ==
  CASE m.currentState = STATE_MENU ->
         IF face = FACE_NEG_Y THEN startCountdown(m, COUNT_NEG_Y_SEC, "Y", 0, FACE_NEG_Y, now)
         ELSE IF face = FACE_POS_X THEN startCountdown(m, COUNT_POS_X_SEC, "X", 1, FACE_POS_X, now)
         ELSE IF face = FACE_POS_Y THEN startCountdown(m, COUNT_POS_Y_SEC, "Y", 2, FACE_POS_Y, now)
         ELSE IF face = FACE_NEG_X THEN startCountdown(m, COUNT_NEG_X_SEC, "X", 3, FACE_NEG_X, now)
         ELSE m
    [] m.currentState = STATE_COUNTDOWN -> updateCountdown(m, now)
    [] m.currentState = STATE_ALARM -> updateAlarm(m, now)

\* loop(), lines 179-207: the switch on currentState
dispatch(m, face, now) ==
  CASE m.currentState = STATE_MENU ->
         IF face = FACE_NEG_Y THEN startCountdown(m, COUNT_NEG_Y_SEC, "Y", 0, FACE_NEG_Y, now)
         ELSE IF face = FACE_POS_X THEN startCountdown(m, COUNT_NEG_X_SEC, "X", 1, FACE_POS_X, now)
         ELSE IF face = FACE_POS_Y THEN startCountdown(m, COUNT_POS_Y_SEC, "Y", 2, FACE_POS_Y, now)
         ELSE IF face = FACE_NEG_X THEN startCountdown(m, COUNT_POS_X_SEC, "X", 3, FACE_NEG_X, now)
         ELSE m
    [] m.currentState = STATE_COUNTDOWN -> updateCountdown(m, now)
    [] m.currentState = STATE_ALARM -> updateAlarm(m, now)

loop(m, face, now) ==
  LET a == axisChange(m, face, now)
  IN  IF a.ret THEN a.m ELSE dispatch(a.m, face, now)

----------------------------------------------------------------------------
(* Readings the motion source delivers in the state machine's runs: one    *)
(* resting on each side face and one lying flat.                           *)
Samples == { <<0, -98, 0>>, <<98, 0, 0>>, <<0, 98, 0>>, <<-98, 0, 0>>, <<0, 0, 98>> }

Init ==
  /\ pc = "boot"
  /\ clock \in {ul(BootMs), ulBeforeWrap(WrapEarly), ulBeforeWrap(WrapLate)}
  /\ sample = <<0, 0, 98>>
  /\ currentFace = FACE_NONE
  /\ currentState = STATE_MENU
  /\ activeFace = FACE_NONE
  /\ countdownTotalSec = 0
  /\ countdownRemainingSec = 0
  /\ countdownAxisLabel = "?"
  /\ lastCountdownTick = ul(0)
  /\ countdownRotation = 0
  /\ lastAlarmToggleMs = ul(0)
  /\ alarmOutputState = FALSE
  /\ axisChangePending = FALSE
  /\ axisChangeStartMs = ul(0)
  /\ currentNoteIndex = 0
  /\ noteStartMs = ul(0)
  /\ ledPin = LOW
  /\ piezoPin = LOW
  /\ toneFreq = 0
  /\ display = [screen |-> "blank", rotation |-> 0, number |-> -1]
  /\ uptime = 0
  /\ period \in {POLL_MS} \cup LatePeriods
  /\ passes = 0
  /\ turns = 0
  /\ sessions = 0
  /\ events = {}
  /\ diffSince = -1
  /\ anchors = [tick |-> -1, toggle |-> -1, note |-> -1, axis |-> -1]

\* the program variables take the values of record m
Install(m) ==
  /\ currentState' = m.currentState
  /\ activeFace' = m.activeFace
  /\ countdownTotalSec' = m.countdownTotalSec
  /\ countdownRemainingSec' = m.countdownRemainingSec
  /\ countdownAxisLabel' = m.countdownAxisLabel
  /\ lastCountdownTick' = m.lastCountdownTick
  /\ countdownRotation' = m.countdownRotation
  /\ lastAlarmToggleMs' = m.lastAlarmToggleMs
  /\ alarmOutputState' = m.alarmOutputState
  /\ axisChangePending' = m.axisChangePending
  /\ axisChangeStartMs' = m.axisChangeStartMs
  /\ currentNoteIndex' = m.currentNoteIndex
  /\ noteStartMs' = m.noteStartMs
  /\ ledPin' = m.ledPin
  /\ piezoPin' = m.piezoPin
  /\ toneFreq' = m.toneFreq
  /\ display' = m.display
  /\ events' = m.ev

\* setup(): pins low, then goToMenu()
Setup ==
  /\ pc = "boot"
  /\ pc' = "loop"
  /\ Install(goToMenu([Machine EXCEPT !.ledPin = LOW, !.piezoPin = LOW]))
  /\ UNCHANGED <<clock, sample, currentFace, period, uptime, passes, turns, sessions, diffSince, anchors>>

Differs(face, act) == ~ (face = act /\ face # FACE_NONE)

\* one pass: the delay of period ms that ends the previous pass, then the
\* body of loop() on reading s; every millis() of the pass reads the same value
Pass(s, maxPasses, maxTurns) ==
  LET now  == ulAdd(clock, period)
      up   == uptime + period
      face == detectFace(s[1], s[2], s[3])
      m    == loop(Machine, face, now)
      timing == currentState \in {STATE_COUNTDOWN, STATE_ALARM}
  IN  /\ pc = "loop"
      /\ passes < maxPasses
      /\ s # sample => turns < maxTurns
      /\ sessions' = IF "start" \in m.ev THEN sessions + 1 ELSE sessions
      /\ passes' = passes + 1
      /\ turns' = IF s # sample THEN turns + 1 ELSE turns
      /\ UNCHANGED <<pc, period>>
      /\ clock' = now
      /\ uptime' = up
      /\ sample' = s
      /\ currentFace' = face
      /\ Install(m)
      /\ diffSince' = IF ~ timing \/ m.currentState = STATE_MENU \/ ~ Differs(face, activeFace)
                        THEN -1
                      ELSE IF diffSince = -1 THEN up ELSE diffSince
      /\ anchors' = [tick   |-> IF m.ev \cap {"start", "dec", "expire"} # {} THEN up ELSE anchors.tick,
                     toggle |-> IF m.ev \cap {"expire", "blink"} # {} THEN up ELSE anchors.toggle,
                     note   |-> IF m.ev \cap {"expire", "note"} # {} THEN up ELSE anchors.note,
                     axis   |-> IF "open" \in m.ev THEN up ELSE anchors.axis]

\* a pass at the nominal polling period, delay(50), of a device being handled
Poll ==
  /\ period = POLL_MS
  /\ \E s \in Samples : Pass(s, MaxPasses, MaxTurns)

\* the same under a slow scheduler
LatePoll ==
  /\ period \in LatePeriods
  /\ \E s \in Samples : Pass(s, MaxPasses, MaxTurns)

Next == Setup \/ Poll \/ LatePoll

Spec == Init /\ [][Next]_vars

\* the passes of a device that is put on a side at the first pass and left
\* to rest there, polled at the nominal period: the run is followed until
\* the device is back in the menu
RestPass(s, maxTurns) ==
  /\ period = POLL_MS
  /\ sessions = 0 \/ currentState # STATE_MENU
  /\ currentState = STATE_MENU => detectFace(s[1], s[2], s[3]) # FACE_NONE
  /\ Pass(s, MaxRestPasses, maxTurns)

\* ... and may be turned again later
RestPoll ==
  \E s \in Samples : RestPass(s, MaxRestTurns)

NextRest == Setup \/ RestPoll

SpecRest == Init /\ [][NextRest]_vars

(* Liveness runs: loop() takes 250 ms a pass and is called again for as     *)
(* long as the horizon allows; the device is placed on a side, may be      *)
(* turned away from the face it is held on, and is then left as it lies.   *)
AwayPoll ==
  \E s \in Samples :
    /\ period \in LatePeriods /\ period < COUNTDOWN_TICK_MS
    /\ sessions = 0 \/ currentState # STATE_MENU
    /\ currentState = STATE_MENU => detectFace(s[1], s[2], s[3]) # FACE_NONE
    /\ s = sample \/ currentState = STATE_MENU \/ currentFace = activeFace
    /\ Pass(s, MaxAwayPasses, MaxRestTurns)

NextAway == Setup \/ AwayPoll

SpecAway == Init /\ [][NextAway]_vars /\ WF_vars(AwayPoll)

\* ... and is never touched again
StillPoll ==
  \E s \in Samples : (s = sample \/ currentState = STATE_MENU) /\ RestPass(s, MaxRestTurns)

NextStill == Setup \/ StillPoll

SpecStill == Init /\ [][NextStill]_vars /\ WF_vars(StillPoll)

TypeOK ==
  /\ currentState \in State
  /\ activeFace \in Face
  /\ currentNoteIndex \in 0 .. (NUM_NOTES - 1)
  /\ clock \in ULong

----------------------------------------------------------------------------
(* The classifier on its own: a reading from a grid of values around the   *)
(* band edges (tenths of m/s^2) is classified once.                        *)
Grid == {-120, -116, -115, -98, -90, -89, 0, 89, 90, 98, 115, 116, 120}

InitFace ==
  /\ Init
  /\ clock = ul(BootMs)
  /\ period = POLL_MS

ReadSensor ==
  /\ pc = "boot"
  /\ pc' = "sensor"
  /\ sample' \in Grid \X Grid \X Grid
  /\ UNCHANGED <<clock, currentFace, currentState, activeFace,
                 countdownTotalSec, countdownRemainingSec, countdownAxisLabel,
                 lastCountdownTick, countdownRotation, lastAlarmToggleMs, alarmOutputState,
                 axisChangePending, axisChangeStartMs, currentNoteIndex, noteStartMs,
                 ledPin, piezoPin, toneFreq, display, period, uptime, passes, turns,
                 sessions, events, diffSince, anchors>>

Classify ==
  /\ pc = "sensor"
  /\ pc' = "classified"
  /\ currentFace' = detectFace(sample[1], sample[2], sample[3])
  /\ UNCHANGED <<clock, sample, currentState, activeFace,
                 countdownTotalSec, countdownRemainingSec, countdownAxisLabel,
                 lastCountdownTick, countdownRotation, lastAlarmToggleMs, alarmOutputState,
                 axisChangePending, axisChangeStartMs, currentNoteIndex, noteStartMs,
                 ledPin, piezoPin, toneFreq, display, period, uptime, passes, turns,
                 sessions, events, diffSince, anchors>>

NextFace == ReadSensor \/ Classify

SpecFace == InitFace /\ [][NextFace]_vars

----------------------------------------------------------------------------
(* Vocabulary of the properties *)
Timing == currentState \in {STATE_COUNTDOWN, STATE_ALARM}
PassStep == passes' = passes + 1
SideFaces == {FACE_NEG_Y, FACE_POS_X, FACE_POS_Y, FACE_NEG_X}

----------------------------------------------------------------------------
(* C1: during Countdown with 50 ms polling, a pass that sees another face  *)
(* (or none) after a pass that saw the active face does not lead to the    *)
(* menu, and when the very next pass sees the active face again the        *)
(* pending window is cleared and the session goes on: same active face,    *)
(* remaining seconds unchanged or one less, state Countdown, or Alarm when *)
(* the countdown was at zero.                                              *)
C1_FlickerIgnored ==
  [][ (period = POLL_MS /\ currentState = STATE_COUNTDOWN /\ PassStep) =>
        /\ (diffSince = -1 /\ Differs(currentFace', activeFace)) =>
              /\ currentState' # STATE_MENU
              /\ activeFace' = activeFace
        /\ (diffSince = uptime /\ ~ Differs(currentFace', activeFace)) =>
              /\ currentState' # STATE_MENU
              /\ ~ axisChangePending'
              /\ activeFace' = activeFace
              /\ countdownRemainingSec' \in {countdownRemainingSec, countdownRemainingSec - 1}
              /\ currentState' = STATE_ALARM => countdownRemainingSec = 0 ]_vars

\* a countdown in which the last pass but one saw another face and the last saw the active one
C1_Witness ==
  /\ period = POLL_MS
  /\ currentState = STATE_COUNTDOWN
  /\ currentFace = activeFace
  /\ ~ axisChangePending
  /\ anchors.axis = uptime - POLL_MS
  /\ anchors.tick < anchors.axis

----------------------------------------------------------------------------
(* C2: in Countdown or Alarm, when every pass since some pass at least     *)
(* 500 ms ago has seen a face other than the active one (another face or   *)
(* none), the pass ends in the menu with the pending window cleared, no    *)
(* active face, the tone silent and the indicator off.                     *)
C2_SustainedTurnToMenu ==
  [][ (Timing /\ PassStep /\ diffSince # -1 /\ Differs(currentFace', activeFace)
         /\ uptime' - diffSince >= AXIS_CHANGE_BUFFER_MS) =>
        /\ currentState' = STATE_MENU
        /\ ~ axisChangePending'
        /\ activeFace' = FACE_NONE
        /\ toneFreq' = 0
        /\ ledPin' = LOW ]_vars

\* the menu, reached from an alarm whose indicator was lit, on a confirmed change
C2_Witness ==
  /\ currentState = STATE_MENU
  /\ "confirm" \in events
  /\ anchors.note # -1
  /\ alarmOutputState
  /\ toneFreq = 0
  /\ ledPin = LOW

----------------------------------------------------------------------------
----------------------------------------------------------------------------
(* C4: within a session remainingSeconds stays in [0, totalSeconds], each  *)
(* pass leaves it as it was or takes exactly 1 off, and the state becomes  *)
(* Alarm only from a Countdown state in which remainingSeconds is 0.       *)
C4_CountdownSteps ==
  /\ [](Timing => (0 <= countdownRemainingSec /\ countdownRemainingSec <= countdownTotalSec))
  /\ [][ /\ Timing =>
              countdownRemainingSec' \in {countdownRemainingSec, countdownRemainingSec - 1}
         /\ (currentState # STATE_ALARM /\ currentState' = STATE_ALARM) =>
              /\ currentState = STATE_COUNTDOWN
              /\ countdownRemainingSec = 0
              /\ countdownRemainingSec' = 0 ]_vars

\* the alarm has just started, five decrements after a 5 s countdown began
C4_Witness ==
  /\ currentState = STATE_ALARM
  /\ "expire" \in events
  /\ countdownTotalSec = COUNT_NEG_Y_SEC
  /\ countdownRemainingSec = 0

----------------------------------------------------------------------------
(* C5: leaving the menu sets totalSeconds and remainingSeconds to the      *)
(* duration of the face seen and the rotation to its orientation: NegY 5 s *)
(* rotation 0, PosX 30 s rotation 1, PosY 15 s rotation 2, NegX 10 s       *)
(* rotation 3; it records that face as the active face; a side face seen   *)
(* in the menu always starts the countdown; and while the session lasts no *)
(* pass sets the total or the rotation again or raises remainingSeconds.   *)
C5_Seconds(face) ==
  CASE face = FACE_NEG_Y -> 5 [] face = FACE_POS_X -> 30
    [] face = FACE_POS_Y -> 15 [] face = FACE_NEG_X -> 10

C5_Rotation(face) ==
  CASE face = FACE_NEG_Y -> 0 [] face = FACE_POS_X -> 1
    [] face = FACE_POS_Y -> 2 [] face = FACE_NEG_X -> 3

----------------------------------------------------------------------------
(* C6: a reading whose largest magnitude max(|x|,|y|,|z|) lies outside the *)
(* band [9.0, 11.5] is classified as no face, also when another axis lies  *)
(* inside the band.                                                        *)
C6_Dominant(s) ==
  LET a == fabsf(s[1])
      b == fabsf(s[2])
      c == fabsf(s[3])
  IN  IF a >= b /\ a >= c THEN a ELSE IF b >= c THEN b ELSE c

C6_OutOfBandIsNone ==
  (pc = "classified" /\ (C6_Dominant(sample) < 90 \/ C6_Dominant(sample) > 115))
    => currentFace = FACE_NONE

\* classified: x dominant above the band while y rests inside it
C6_Witness ==
  /\ pc = "classified"
  /\ sample = <<120, -98, 0>>
  /\ currentFace = FACE_NONE

----------------------------------------------------------------------------
(* C7: in Alarm the note index is always in 0..12, every advance takes it  *)
(* from i to (i+1) mod 13, and while the device stays on the active face   *)
(* every note i is followed by note (i+1) mod 13: all 13 notes in order,   *)
(* note 0 again after note 12, without end.  (The exploration ends after   *)
(* MaxRestPasses passes, so the note must have room to run out before.)    *)
C7_Room ==
  passes + (noteDurations[currentNoteIndex + 1] \div period) <= MaxRestPasses

C7_MelodyCycles ==
  /\ [](currentState = STATE_ALARM => currentNoteIndex \in 0 .. 12)
  /\ [][ (currentState = STATE_ALARM /\ currentState' = STATE_ALARM) =>
            \/ currentNoteIndex' = currentNoteIndex
            \/ currentNoteIndex' = (currentNoteIndex + 1) % 13 ]_vars
  /\ \A i \in 0 .. 12 :
        (currentState = STATE_ALARM /\ currentNoteIndex = i /\ C7_Room)
           ~> (currentState = STATE_ALARM /\ currentNoteIndex = (i + 1) % 13)

\* the melody has just wrapped from its last note to note 0
C7_Witness ==
  /\ currentState = STATE_ALARM
  /\ "note" \in events
  /\ currentNoteIndex = 0
  /\ toneFreq = 659
  /\ uptime - anchors.tick >= 3300

----------------------------------------------------------------------------
(* C8: a pass in Alarm that sees the active face ends in Alarm, whatever   *)
(* time has passed and whatever the melody and the blink did; Alarm is     *)
(* left only for the menu, and only by a pass that sees another face at    *)
(* least 500 ms after the first of an unbroken run of such passes.         *)
C8_AlarmNeedsTurn ==
  [][ /\ (currentState = STATE_ALARM /\ PassStep /\ ~ Differs(currentFace', activeFace)) =>
           currentState' = STATE_ALARM
      /\ (currentState = STATE_ALARM /\ currentState' # STATE_ALARM) =>
           /\ currentState' = STATE_MENU
           /\ Differs(currentFace', activeFace)
           /\ diffSince # -1
           /\ uptime' - diffSince >= AXIS_CHANGE_BUFFER_MS ]_vars

\* still in Alarm on the active face after the melody wrapped and the indicator toggled
C8_Witness ==
  /\ currentState = STATE_ALARM
  /\ currentFace = activeFace
  /\ events = {}
  /\ alarmOutputState
  /\ uptime - anchors.tick > 3300

----------------------------------------------------------------------------
(* C9: activeFace is None exactly when the state is Menu; in Countdown and *)
(* Alarm it is one of the four side faces, it is the face seen by the pass *)
(* that left the menu, and it does not change while the session lasts.     *)
C9_ActiveFace ==
  /\ [](/\ (activeFace = FACE_NONE) <=> (currentState = STATE_MENU)
        /\ Timing => activeFace \in SideFaces)
  /\ [][ /\ (currentState = STATE_MENU /\ currentState' # STATE_MENU) =>
              activeFace' = currentFace'
         /\ (Timing /\ currentState' # STATE_MENU) =>
              activeFace' = activeFace ]_vars

\* a second session, on another face than the first
C9_Witness ==
  /\ Timing
  /\ sessions = 2
  /\ activeFace = FACE_POS_Y
  /\ currentFace = FACE_NEG_X
  /\ axisChangePending

----------------------------------------------------------------------------
(* C10: the one-second decrement (or expiry), the blink toggle, the note   *)
(* advance and the debounce confirmation happen in a pass exactly when the *)
(* time that has really passed since their timestamp was written reaches   *)
(* their period, also when the 32-bit clock has wrapped in between.        *)
C10_WrapSafe ==
  [][ PassStep =>
        /\ (currentState = STATE_COUNTDOWN /\ "confirm" \notin events') =>
              ((events' \cap {"dec", "expire"} # {}) <=> (uptime' - anchors.tick >= 1000))
        /\ (currentState = STATE_ALARM /\ "confirm" \notin events') =>
              /\ ("blink" \in events') <=> (uptime' - anchors.toggle >= 1000)
              /\ ("note" \in events')
                    <=> (uptime' - anchors.note >= noteDurations[currentNoteIndex + 1])
        /\ (Timing /\ axisChangePending /\ Differs(currentFace', activeFace)) =>
              (("confirm" \in events') <=> (uptime' - anchors.axis >= 500)) ]_vars

\* a decrement whose one second began before the clock wrapped and ended after
C10_Witness ==
  \E w \in {WrapEarly, WrapLate} :
     /\ uptime >= w
     /\ clock = ul(uptime - w)
     /\ "dec" \in events
     /\ uptime - COUNTDOWN_TICK_MS < w

----------------------------------------------------------------------------
(* C11: with the device held on the triggering face, the pass that brings  *)
(* remainingSeconds to 0 (the N-th one-second step of an N-second session) *)
(* is the pass that enters Alarm, and Alarm is entered once per session.   *)
C11_AlarmOnReachingZero ==
  [][ /\ (currentState = STATE_COUNTDOWN /\ ~ Differs(currentFace', activeFace)
            /\ countdownRemainingSec = 1 /\ countdownRemainingSec' = 0) =>
           currentState' = STATE_ALARM
      /\ (currentState = STATE_ALARM) => "expire" \notin events' ]_vars

----------------------------------------------------------------------------
(* C12: the state changes only from Menu to Countdown, from Countdown to   *)
(* Alarm, from Countdown to Menu and from Alarm to Menu; and a pass leaves *)
(* Countdown or Alarm for the menu only when it sees another face, a       *)
(* window was open before it, at least 500 ms have passed since the window *)
(* opened, and the window opened at the first pass of the unbroken run of  *)
(* passes that saw another face.                                           *)
C12_Transitions ==
  [][ /\ currentState' # currentState =>
           <<currentState, currentState'>> \in
              { <<STATE_MENU, STATE_COUNTDOWN>>, <<STATE_COUNTDOWN, STATE_ALARM>>,
                <<STATE_COUNTDOWN, STATE_MENU>>, <<STATE_ALARM, STATE_MENU>> }
      /\ (Timing /\ currentState' = STATE_MENU) =>
           /\ axisChangePending
           /\ Differs(currentFace', activeFace)
           /\ uptime' - anchors.axis >= 500
           /\ diffSince = anchors.axis ]_vars

\* the menu, reached by the pass exactly 500 ms after the window opened
C12_Witness ==
  /\ period = POLL_MS
  /\ currentState = STATE_MENU
  /\ "confirm" \in events
  /\ uptime - anchors.axis = 500

----------------------------------------------------------------------------
(* C13: the pass that enters Alarm leaves the blink level false, the       *)
(* indicator off, the blink and note-start timestamps at the time of the   *)
(* entry, the note index 0 and the tone at 659 Hz, the first note; it does *)
(* not run the alarm sequencer.                                            *)
C13_AlarmEntry ==
  [][ (currentState # STATE_ALARM /\ currentState' = STATE_ALARM) =>
        /\ ~ alarmOutputState'
        /\ ledPin' = LOW
        /\ lastAlarmToggleMs' = clock'
        /\ noteStartMs' = clock'
        /\ currentNoteIndex' = 0
        /\ toneFreq' = 659
        /\ events' \cap {"blink", "note"} = {} ]_vars

\* Alarm just entered, while a window opened during the countdown is pending
C13_Witness ==
  /\ currentState = STATE_ALARM
  /\ noteStartMs = clock
  /\ lastAlarmToggleMs = clock
  /\ toneFreq = 659
  /\ axisChangePending

----------------------------------------------------------------------------
(* C14 as stated: polled every 50 ms in Alarm, the indicator level changes *)
(* on exactly the passes 0, 1000, 2000, ... ms after the entry to Alarm,   *)
(* the entry pass included.                                                *)
C14_AsStated ==
  [][ (PassStep /\ period = POLL_MS /\ currentState' = STATE_ALARM) =>
        (ledPin' # ledPin <=> (uptime' - anchors'.tick) % ALARM_TOGGLE_MS = 0) ]_vars

(* C14, amended: polled every 50 ms, the pass that enters Alarm leaves the *)
(* indicator off, and the indicator level changes on exactly the passes    *)
(* 1000, 2000, ... ms after the entry, each exactly 1000 ms after the      *)
(* entry or the previous toggle; a pass on which no note is due leaves the *)
(* note index and the note start alone even when it toggles, and a pass on *)
(* which no toggle is due leaves the blink level and the blink timestamp   *)
(* alone even when it advances the note.                                   *)
C14_BlinkEverySecond ==
  [][ (PassStep /\ period = POLL_MS /\ currentState' = STATE_ALARM) =>
        /\ ledPin' # ledPin <=>
             /\ uptime' > anchors'.tick
             /\ (uptime' - anchors'.tick) % ALARM_TOGGLE_MS = 0
        /\ ledPin' # ledPin =>
             /\ uptime' - anchors.toggle = ALARM_TOGGLE_MS
             /\ alarmOutputState' = ~ alarmOutputState
             /\ lastAlarmToggleMs' = clock'
        /\ ledPin' = (IF alarmOutputState' THEN HIGH ELSE LOW)
        /\ currentState = STATE_ALARM =>
             /\ uptime' - anchors.note < noteDurations[currentNoteIndex + 1] =>
                  UNCHANGED <<currentNoteIndex, noteStartMs, toneFreq>>
             /\ uptime' - anchors.toggle < ALARM_TOGGLE_MS =>
                  UNCHANGED <<alarmOutputState, lastAlarmToggleMs, ledPin>> ]_vars

\* the second toggle, 2000 ms after the entry to Alarm, with the face held
C14_Witness ==
  /\ period = POLL_MS
  /\ currentState = STATE_ALARM
  /\ currentFace = activeFace
  /\ "blink" \in events
  /\ ~ alarmOutputState
  /\ uptime - anchors.tick = 2 * ALARM_TOGGLE_MS

----------------------------------------------------------------------------
\* the band [9.0, 11.5] of the reference rule, in tenths of m/s^2
C15_InBand(a) == a >= 90 /\ a <= 115

\* the reference rule, on the absolute values of the three components
C15_Reference(s) ==
  LET ax == IF s[1] < 0 THEN - s[1] ELSE s[1]
      ay == IF s[2] < 0 THEN - s[2] ELSE s[2]
      az == IF s[3] < 0 THEN - s[3] ELSE s[3]
  IN  CASE ay >= ax /\ ay >= az /\ C15_InBand(ay) ->
             (IF s[2] > 0 THEN FACE_POS_Y ELSE FACE_NEG_Y)
        [] ~ (ay >= ax /\ ay >= az /\ C15_InBand(ay))
             /\ ax >= ay /\ ax >= az /\ C15_InBand(ax) ->
             (IF s[1] > 0 THEN FACE_POS_X ELSE FACE_NEG_X)
        [] OTHER -> FACE_NONE

(* C15: for every sample detectFace returns the face of the reference      *)
(* rule: a Y face when |y| is the largest (ties included) and in the band, *)
(* else an X face when |x| is the largest and in the band, else None; a    *)
(* tie |x| = |y| never gives an X face and a dominant Z gives None.        *)
C15_MatchesReference ==
  pc = "classified" =>
    /\ currentFace = C15_Reference(sample)
    /\ (fabsf(sample[1]) = fabsf(sample[2])) =>
         currentFace \notin {FACE_POS_X, FACE_NEG_X}
    /\ (fabsf(sample[3]) > fabsf(sample[1]) /\ fabsf(sample[3]) > fabsf(sample[2])) =>
         currentFace = FACE_NONE

\* an exact tie of |x| and |y| in the band, classified as the negative Y face
C15_Witness ==
  /\ pc = "classified"
  /\ sample = <<98, -98, 0>>
  /\ currentFace = FACE_NEG_Y

----------------------------------------------------------------------------
(* C16: after every pass, a pending window means that the state is         *)
(* Countdown or Alarm and that less than 500 ms separate the window's open *)
(* timestamp from the time of that pass; and a pass that finds the window  *)
(* open, at least 500 ms old, and the face still different ends in the     *)
(* menu with the window cleared.                                           *)
C16_WindowShortLived ==
  [][ PassStep =>
        /\ axisChangePending' =>
             /\ Timing'
             /\ ~ AtLeast(Elapsed(clock', axisChangeStartMs'), AXIS_CHANGE_BUFFER_MS)
             /\ uptime' - anchors'.axis < AXIS_CHANGE_BUFFER_MS
        /\ ( /\ Timing /\ axisChangePending
             /\ AtLeast(Elapsed(clock', axisChangeStartMs), AXIS_CHANGE_BUFFER_MS)
             /\ Differs(currentFace', activeFace) ) =>
             (currentState' = STATE_MENU /\ ~ axisChangePending') ]_vars

\* a window still pending 450 ms after it opened
C16_Witness ==
  /\ period = POLL_MS
  /\ axisChangePending
  /\ Elapsed(clock, axisChangeStartMs) = <<0, 450>>
  /\ uptime - anchors.axis = 450

----------------------------------------------------------------------------
(* C17: a pass in Countdown takes at most one second off remainingSeconds; *)
(* it does so only when at least 1000 ms have passed since the tick        *)
(* timestamp, which is also the time of the start or of the previous       *)
(* decrement, and it then sets the tick timestamp to the time of the pass; *)
(* a pass that comes 2000 ms or more after the tick timestamp with seconds *)
(* remaining takes off exactly one.                                        *)
C17_OneDecrementPerPass ==
  [][ (PassStep /\ currentState = STATE_COUNTDOWN) =>
        /\ countdownRemainingSec' \in {countdownRemainingSec, countdownRemainingSec - 1}
        /\ countdownRemainingSec' = countdownRemainingSec - 1 =>
             /\ AtLeast(Elapsed(clock', lastCountdownTick), COUNTDOWN_TICK_MS)
             /\ uptime' - anchors.tick >= COUNTDOWN_TICK_MS
             /\ lastCountdownTick' = clock'
             /\ anchors'.tick = uptime'
        /\ ( /\ uptime' - anchors.tick >= 2 * COUNTDOWN_TICK_MS
             /\ countdownRemainingSec > 0
             /\ currentState' = STATE_COUNTDOWN ) =>
             countdownRemainingSec' = countdownRemainingSec - 1 ]_vars

\* polled every 2000 ms: the second decrement, 4000 ms into the session
C17_Witness ==
  /\ period = 2000
  /\ currentState = STATE_COUNTDOWN
  /\ "dec" \in events
  /\ countdownRemainingSec = countdownTotalSec - 2
  /\ lastCountdownTick = clock

----------------------------------------------------------------------------
(* C18: a pass in the menu that classifies the reading as None changes     *)
(* nothing: the state stays Menu, activeFace stays None, no window is      *)
(* open, and the session fields, the alarm fields, the tone, the indicator *)
(* and the display are as before; a pass in the menu that classifies the   *)
(* reading as a side face is in Countdown on that face when it ends.       *)
C18_MenuPass ==
  [][ (PassStep /\ currentState = STATE_MENU) =>
        /\ currentFace' = FACE_NONE =>
             /\ currentState' = STATE_MENU
             /\ activeFace' = FACE_NONE
             /\ ~ axisChangePending'
             /\ events' = {}
             /\ UNCHANGED <<currentState, activeFace, countdownTotalSec,
                            countdownRemainingSec, countdownAxisLabel, lastCountdownTick,
                            countdownRotation, lastAlarmToggleMs, alarmOutputState,
                            axisChangePending, axisChangeStartMs, currentNoteIndex,
                            noteStartMs, ledPin, piezoPin, toneFreq, display>>
        /\ currentFace' \in SideFaces =>
             /\ currentState' = STATE_COUNTDOWN
             /\ activeFace' = currentFace'
             /\ "start" \in events' ]_vars

\* an idle pass in the menu after a session that was abandoned
C18_Witness ==
  /\ currentState = STATE_MENU
  /\ sessions = 1
  /\ currentFace = FACE_NONE
  /\ events = {}
  /\ countdownRemainingSec > 0

----------------------------------------------------------------------------
(* C19: a pass in Countdown or Alarm that leaves the window pending still  *)
(* runs the countdown or the alarm when one of their deadlines has come;   *)
(* the pass that enters Alarm while the face differs leaves the window     *)
(* pending, with the open timestamp it had if it was open before; and in   *)
(* Alarm a pass that sees the face still different 500 ms after the window *)
(* opened returns to the menu, however recent the entry to Alarm.          *)
C19_WindowSurvivesHandoff ==
  [][ (PassStep /\ Timing) =>
        /\ (axisChangePending' /\ currentState = STATE_COUNTDOWN
              /\ AtLeast(Elapsed(clock', lastCountdownTick), COUNTDOWN_TICK_MS)) =>
             events' \cap {"dec", "expire"} # {}
        /\ (axisChangePending' /\ currentState = STATE_ALARM
              /\ AtLeast(Elapsed(clock', lastAlarmToggleMs), ALARM_TOGGLE_MS)) =>
             "blink" \in events'
        /\ (axisChangePending' /\ currentState = STATE_ALARM
              /\ AtLeast(Elapsed(clock', noteStartMs), noteDurations[currentNoteIndex + 1])) =>
             "note" \in events'
        /\ ( /\ currentState = STATE_COUNTDOWN /\ currentState' = STATE_ALARM
             /\ Differs(currentFace', activeFace) ) =>
             /\ axisChangePending'
             /\ axisChangePending => axisChangeStartMs' = axisChangeStartMs
        /\ ( /\ currentState = STATE_ALARM /\ axisChangePending
             /\ Differs(currentFace', activeFace)
             /\ uptime' - anchors.axis >= AXIS_CHANGE_BUFFER_MS ) =>
             currentState' = STATE_MENU ]_vars

\* back in the menu 500 ms after a window that opened during the countdown,
\* less than 500 ms after the entry to Alarm
C19_Witness ==
  /\ currentState = STATE_MENU
  /\ "confirm" \in events
  /\ anchors.toggle = anchors.tick
  /\ anchors.axis < anchors.tick
  /\ uptime - anchors.axis = AXIS_CHANGE_BUFFER_MS
  /\ uptime - anchors.tick < AXIS_CHANGE_BUFFER_MS

----------------------------------------------------------------------------
\* passes left before the horizon suffice to count down to zero and expire
C20_RoomToExpire ==
  passes + (countdownRemainingSec + 1) * (COUNTDOWN_TICK_MS \div period) <= MaxAwayPasses

\* passes left before the horizon suffice to confirm a change of face
C20_RoomToConfirm ==
  passes + (AXIS_CHANGE_BUFFER_MS \div period) <= MaxAwayPasses

(* C20: with loop() called again and again, a countdown leads to Alarm     *)
(* unless some pass sees a face other than the active one; and Countdown   *)
(* or Alarm with the face seen different leads to the menu unless some     *)
(* later pass sees the active face again.                                  *)
C20_NoStall ==
  /\ (currentState = STATE_COUNTDOWN /\ C20_RoomToExpire)
        ~> (currentState = STATE_ALARM \/ Differs(currentFace, activeFace))
  /\ (Timing /\ Differs(currentFace, activeFace) /\ C20_RoomToConfirm)
        ~> (currentState = STATE_MENU \/ ~ Differs(currentFace, activeFace))

\* Alarm entered by a countdown during which the face never left
C20_Witness ==
  /\ currentState = STATE_ALARM
  /\ "expire" \in events
  /\ currentFace = activeFace
  /\ anchors.axis = -1

====
